---- MODULE Spec2Model ----
(***************************************************************************)
(* GSTable: a record type (class extending GSTable) bound to one sheet of  *)
(* a spreadsheet.  The model follows src/GSTable.js for a record type      *)
(*   class Item extends GSTable {                                          *)
(*     name     = COLUMN().STRING(name)            (required)              *)
(*     quantity = COLUMN().NUMBER(quantity)        (required)              *)
(*     image    = COLUMN().STRING(image, false)    (not required)          *)
(*   }                                                                     *)
(* Cell values are strings: "" is the empty string, "0"/"5" are numbers,   *)
(* "d<n>" is the Date taken at clock value n, UNDEF is JavaScript's        *)
(* undefined.  The sheet is a sequence of rows (row 1 = headers); the      *)
(* empty sequence is "no sheet of that name".                              *)
(***************************************************************************)
EXTENDS Integers, Sequences, FiniteSets, TLC

\* ---------------------------------------------------------------- bounds
NumEntities == 1    \* in-memory entities of the record type
NumIds == 2         \* distinct outcomes of generateId(8) that are modelled
MaxOps == 3         \* persist/remove/setValue/getTableInfo calls in a run
MaxIdLen == 3       \* largest length generateId is called with on its own

UNDEF == "<undefined>"
NoUser == "<null>"
Users == {NoUser, "ann"}
DateOf(t) == "d" \o ToString(t)

VARIABLES
  sheet,     \* the backing sheet: <<>> (absent) or rows of cells, row 1 = headers
  ent,       \* ent[e]: the in-memory entity e (columns' _value, and row_number)
  ops,       \* number of calls made so far; the clock read by new Date(),
             \* every call being later than the one before by a tick or more
  limit,     \* number of calls the run makes at most
  everOk,    \* everOk[e]: some persist of e has returned normally after a write
  called,    \* called[e]: persist has been called on e
  last,      \* record of the last call (operation, result, state before it)
  inflight   \* inflight[e]: how far a persist of e that runs store call by
             \* store call, next to other callers' persists, has come

vars == <<sheet, ent, ops, limit, everOk, called, last, inflight>>

\* ------------------------------------------------------- sequence helpers
Range(s) == {s[i] : i \in DOMAIN s}

\* Array.prototype.indexOf, 0-based, -1 when absent
IndexOf(s, x) ==
  IF \E i \in DOMAIN s : s[i] = x
  THEN (CHOOSE i \in DOMAIN s : s[i] = x /\ \A j \in 1..(i-1) : s[j] # x) - 1
  ELSE -1

Max(S) == CHOOSE x \in S : \A y \in S : y <= x

\* the same sequence, as an explicit tuple
Tuple(s) == SubSeq(s, 1, Len(s))

RemoveAt(s, k) ==
  IF k \in DOMAIN s THEN SubSeq(s, 1, k - 1) \o SubSeq(s, k + 1, Len(s))
  ELSE s

\* ---------------------------------------------------------- generateId
\* the string `characters` of generateId, one element per character
characters ==
  <<"A", "B", "C", "D", "E", "F", "G", "H", "I", "J", "K", "L", "M",
    "N", "O", "P", "Q", "R", "S", "T", "U", "V", "W", "X", "Y", "Z",
    "a", "b", "c", "d", "e", "f", "g", "h", "i", "j", "k", "l", "m",
    "n", "o", "p", "q", "r", "s", "t", "u", "v", "w", "x", "y", "z",
    "0", "1", "2", "3", "4", "5", "6", "7", "8", "9">>

\* String.prototype.charAt: "" when the index is not a position of the string
charAt(str, index) ==
  IF index \in 0..(Len(str) - 1) THEN str[index + 1] ELSE ""

\* the while loop; random[k] is Math.floor(Math.random() * charactersLength)
\* of the k-th turn
RECURSIVE generateIdLoop(_, _, _, _)
generateIdLoop(result, counter, length, random) ==
  IF counter < length
  THEN generateIdLoop(Append(result, charAt(characters, random[counter + 1])),
                      counter + 1, length, random)
  ELSE result

\* generateId(length) with the length check off by one (length < 0)
generateIdOffByOne(length, random) ==
  IF length < 0 THEN [threw |-> TRUE, value |-> <<>>]
  ELSE [threw |-> FALSE, value |-> generateIdLoop(<<>>, 0, length, random)]

\* generateId(length): lines 238-256; value is the characters of the result
generateId(length, random) ==
  IF length <= 0 THEN [threw |-> TRUE, value |-> <<>>]
  ELSE [threw |-> FALSE, value |-> generateIdLoop(<<>>, 0, length, random)]

\* the string made of the characters of chars
RECURSIVE Text(_)
Text(chars) == IF chars = <<>> THEN "" ELSE Head(chars) \o Text(Tail(chars))

\* values of Math.floor(Math.random() * 62) that are modelled
RandomIndexes == {0, 25, 26, 61}

\* persist asks for identifiers of this length (line 552)
IdLength == 8

\* the draws behind the identifiers persist may get
IdDraws == {[i \in 1..IdLength |-> IF i = IdLength THEN k ELSE 0] : k \in 1..NumIds}

\* the identifiers generateId(8) returns on those draws
Ids == {Text(generateId(IdLength, random).value) : random \in IdDraws}

\* ------------------------------------------------------ the record type
\* constructor (GSTable then Item): own properties in declaration order
BaseProps == <<"id", "created", "modified", "created_by", "last_modified_by">>
OwnProps == <<"id", "row_number", "created", "modified", "created_by",
              "last_modified_by", "name", "quantity", "image">>

\* isColumn(emptyObj[prop]): every own property but the plain number row_number
isColumn(prop) == prop \in Range(OwnProps) /\ prop # "row_number"

\* class_props of getTableInfo: the column names in declaration order
class_props == SelectSeq(OwnProps, isColumn)

\* _required of each column (COLUMN().X(value, required = true))
Required(prop) == isColumn(prop) /\ prop # "image"

\* new Item(name, quantity): STRING(v) keeps v || "", NUMBER(v) keeps v || 0
NewEntity(name, quantity, t) ==
  [id |-> "", row_number |-> 0, created |-> DateOf(t), modified |-> DateOf(t),
   created_by |-> "", last_modified_by |-> "",
   name |-> name, quantity |-> quantity, image |-> ""]

\* ------------------------------------------------------------ the store
\* The Spreadsheet service as the code uses it.  A grid is kept rectangular:
\* its height is getLastRow() and its width getLastColumn() (the last row and
\* column holding content); cells never written read "".
Cell(g, r, c) == IF r \in DOMAIN g /\ c \in DOMAIN g[r] THEN g[r][c] ELSE ""

getLastRow(g) ==
  Max({0} \cup {r \in DOMAIN g : \E c \in DOMAIN g[r] : g[r][c] # ""})

getLastColumn(g) ==
  Max({0} \cup {c \in 1..Max({0} \cup {Len(g[r]) : r \in DOMAIN g}) :
                  \E r \in DOMAIN g : Cell(g, r, c) # ""})

Normalise(g) ==
  LET h == getLastRow(g)
      w == getLastColumn(g)
  IN Tuple([r \in 1..h |-> Tuple([c \in 1..w |-> Cell(g, r, c)])])

\* what a cell holds after a JavaScript value is written to it
CellOf(v) == IF v = UNDEF THEN "" ELSE v

\* range.setValues([vals]) on row r from column c
WriteCells(g, r, c, vals) ==
  LET h == Max({Len(g), r})
      w == Max({getLastColumn(g), c + Len(vals) - 1})
  IN Normalise(Tuple([i \in 1..h |-> Tuple([j \in 1..w |->
        IF i = r /\ j >= c /\ j < c + Len(vals) THEN CellOf(vals[j - c + 1])
        ELSE Cell(g, i, j)])]))

\* the row written over the last data row instead of after it
appendRowOverLast(g, vals) == WriteCells(g, Max({getLastRow(g), 2}), 1, vals)

\* sheet.appendRow(vals): the row after the last row holding content
appendRow(g, vals) == WriteCells(g, getLastRow(g) + 1, 1, vals)

\* sheet.deleteColumn(k): the columns to the right shift left
deleteColumn(g, k) == Normalise(Tuple([r \in DOMAIN g |-> RemoveAt(g[r], k)]))

\* the cells of row r cleared (clearContent) and the rows below left in place
deleteCellsClear(g, r) ==
  IF r \in DOMAIN g
  THEN Normalise(Tuple([i \in DOMAIN g |->
         IF i = r THEN Tuple([c \in DOMAIN g[i] |-> ""]) ELSE g[i]]))
  ELSE g

\* range(r, 1, 1, lastColumn).deleteCells(ROWS): the rows below shift up
deleteCells(g, r) == Normalise(RemoveAt(g, r))

\* ------------------------------------------------------- getTableInfo
\* columns_to_delete.forEach: each index is looked up in the header list read
\* BEFORE any deletion (headers is never updated)
RECURSIVE DeleteColumns(_, _, _)
DeleteColumns(g, headers, todo) ==
  IF todo = <<>> THEN g
  ELSE DeleteColumns(deleteColumn(g, IndexOf(headers, Head(todo)) + 1),
                     headers, Tail(todo))

\* the new properties written over the last header instead of after it
addNewPropsOverLast(s, new_props) ==
  IF Len(new_props) > 0
  THEN WriteCells(s, 1, getLastColumn(s), new_props)
  ELSE s

\* lines 203-205: the new properties are written in the header row, from
\* the column after the last column holding content
addNewProps(s, new_props) ==
  IF Len(new_props) > 0
  THEN WriteCells(s, 1, getLastColumn(s) + 1, new_props)
  ELSE s

\* lines 185-205: the sheet as getTableInfo has it once the new properties
\* are written, before any column is deleted
sheetWithNewProps(s) ==
  IF s = <<>> THEN appendRow(<<>>, class_props)
  ELSE addNewProps(s, SelectSeq(class_props, LAMBDA n : n \notin Range(s[1])))

\* getTableInfo(): the sheet after synchronisation, the headers returned and
\* the store calls made that write or flush, in order.
\* `headers.concat(new_props)` builds a new array that is dropped, so the
\* headers returned for an existing sheet are the ones read at line 200.
getTableInfo(s) ==
  IF s = <<>>
  THEN [sheet |-> appendRow(<<>>, class_props), headers |-> class_props,
        calls |-> <<"insertSheet", "appendRow", "flush">>]
  ELSE
    LET headers == s[1]
        new_props == SelectSeq(class_props, LAMBDA n : n \notin Range(headers))
        s1 == addNewProps(s, new_props)
        columns_to_delete ==
          SelectSeq(headers, LAMBDA n : n \notin Range(class_props))
        s2 == IF Len(columns_to_delete) > 0
              THEN DeleteColumns(s1, headers, columns_to_delete)
              ELSE s1
    IN [sheet |-> s2, headers |-> headers,
        calls |-> (IF Len(new_props) > 0 THEN <<"setValues">> ELSE <<>>)
                    \o [i \in DOMAIN columns_to_delete |-> "deleteColumn"]
                    \o <<"flush">>]

\* ------------------------------------------------------- entity mapper
\* fromRawDataToArrayOfObject: row i (0-based) of the data becomes an object
\* keyed by the header row, with row_number = i + 2; a later duplicate header
\* overwrites an earlier one
RawObject(g, r) ==
  [row_number |-> r,
   cells |-> [h \in Range(g[1]) |->
                g[r][Max({c \in DOMAIN g[1] : g[1][c] = h})]]]

\* fromJson: a blank instance whose every own property takes rawObject[property]
fromJson(raw) ==
  [p \in Range(OwnProps) |->
     IF p \in DOMAIN raw.cells THEN raw.cells[p]
     ELSE IF p = "row_number" THEN raw.row_number
     ELSE UNDEF]

\* findAll(): synchronise, read the whole grid, map every data row
findAll(s) ==
  LET g == getTableInfo(s).sheet
  IN Tuple([i \in 1..(Len(g) - 1) |-> fromJson(RawObject(g, i + 1))])

\* findById(id): the first entity of findAll() with that id, or "not found"
NotFound == [id |-> UNDEF, row_number |-> 0]
findById(s, id) ==
  LET all == findAll(s)
      hits == {i \in DOMAIN all : all[i]["id"] = id}
  IN IF hits = {} THEN NotFound
     ELSE all[CHOOSE i \in hits : \A j \in hits : i <= j]

\* filterByConsitions(conditions): the conditions are the <<key, value>> pairs
\* of the object in Object.keys order; a value is "nonfn" (anything that is
\* not a function) or the name of a predicate
Predicates == {"valueIsWidget"}

\* conditions[key](entity[key]) for the predicate
\*   (c) => c !== undefined && c._value === "widget"
\* entity[key] is the column object, a plain value (row_number) or undefined
Invoke(predicate, entity, key) ==
  predicate = "valueIsWidget" /\ isColumn(key) /\ entity[key] = "widget"

\* filterByConsitions with non-function conditions rejecting every entity
filterStrict(conditions, s) ==
  IF Len(conditions) = 0 THEN [sheet |-> s, result |-> <<>>]
  ELSE [sheet |-> getTableInfo(s).sheet,
        result |-> SelectSeq(findAll(s), LAMBDA entity :
                     \A i \in DOMAIN conditions :
                       /\ conditions[i][2] \in Predicates
                       /\ Invoke(conditions[i][2], entity, conditions[i][1]))]

\* filterByConsitions without the early return on an empty conditions object
filterNoGuard(conditions, s) ==
  [sheet |-> getTableInfo(s).sheet,
   result |-> SelectSeq(findAll(s), LAMBDA entity :
                \A i \in DOMAIN conditions :
                  \/ conditions[i][2] \notin Predicates
                  \/ Invoke(conditions[i][2], entity, conditions[i][1]))]

\* lines 347-358
filterByConsitions(conditions, s) ==
  IF Len(conditions) = 0 THEN [sheet |-> s, result |-> <<>>]
  ELSE [sheet |-> getTableInfo(s).sheet,
        result |-> SelectSeq(findAll(s), LAMBDA entity :
                     \A i \in DOMAIN conditions :
                       \/ conditions[i][2] \notin Predicates
                       \/ Invoke(conditions[i][2], entity, conditions[i][1]))]

\* a second record type, class Order extends GSTable with the one column
\*   item = COLUMN().FOREIGNKEY(item, Item)
NewOrder(item, t) ==
  [id |-> "", row_number |-> 0, created |-> DateOf(t), modified |-> DateOf(t),
   created_by |-> "", last_modified_by |-> "", item |-> item]

\* the own properties of an Order that are columns with a _class
ForeignKeys == {"item"}

\* expand(): lines 612-621; s is the sheet of the referenced type Item
expand(s, E) ==
  [sheet |-> getTableInfo(s).sheet,
   ent |-> [p \in DOMAIN E \cup {k \o "_" : k \in ForeignKeys} |->
              IF p \in DOMAIN E THEN E[p]
              ELSE findById(s, E[CHOOSE k \in ForeignKeys : k \o "_" = p])]]

\* getUpdateArray(): synchronises again and emits, in the order of the headers
\* that call returns, the value of every header that is a column of the entity
getUpdateArray(E, s) ==
  LET ti == getTableInfo(s)
      cols == SelectSeq(ti.headers, isColumn)
  IN [sheet |-> ti.sheet, array |-> Tuple([i \in DOMAIN cols |-> E[cols[i]]]),
      calls |-> ti.calls]

\* updateArray[pos] = v in JavaScript: pos = -1 sets a property, not an
\* element; pos past the end leaves holes (undefined)
SetAt(arr, pos, v) ==
  IF pos < 0 THEN arr
  ELSE Tuple([i \in 1..Max({Len(arr), pos + 1}) |->
                IF i = pos + 1 THEN v
                ELSE IF i <= Len(arr) THEN arr[i] ELSE UNDEF])

\* checkRequired(headers, updateArray): this[header]._required throws a
\* TypeError when the entity has no property named by a header
checkRequiredThrows(headers) ==
  \E i \in DOMAIN headers : headers[i] \notin Range(OwnProps)

IsMissing(element) == element = UNDEF \/ element = ""

checkRequired(headers, updateArray) ==
  LET element(i) == IF i \in DOMAIN updateArray THEN updateArray[i] ELSE UNDEF
      idx == SelectSeq([i \in DOMAIN headers |-> i],
                       LAMBDA i : Required(headers[i]) /\ IsMissing(element(i)))
  IN Tuple([k \in DOMAIN idx |-> headers[idx[k]]])

\* ---------------------------------------------------------- persist
Result(s, E, outcome, path, wrongs, headers, calls) ==
  [sheet |-> s, ent |-> E, outcome |-> outcome, path |-> path,
   wrongs |-> wrongs, headers |-> headers, calls |-> calls]

\* lines 544-546: modified = new Date(); last_modified_by = the active user's
\* email when Session.getActiveUser() is not null
Stamp(E, t, user) ==
  [E EXCEPT !.modified = DateOf(t),
            !.last_modified_by = IF user # NoUser THEN user ELSE @]

\* lines 551-558, on the entity: this[prop]._value = newEntityProps[prop]
assignNewEntityProps(E1, newid) ==
  [E1 EXCEPT !.id = newid, !.created = E1.modified,
             !.created_by = E1.last_modified_by]

\* lines 555-558, on the array: updateArray[headers.indexOf(prop)] = value
placeNewEntityProps(headers, E2, arr) ==
  LET arr1 == SetAt(arr, IndexOf(headers, "id"), E2.id)
      arr2 == SetAt(arr1, IndexOf(headers, "created"), E2.created)
  IN SetAt(arr2, IndexOf(headers, "created_by"), E2.created_by)

\* createPath with the row appended before the required columns are checked
createPathAppendFirst(s, headers, E1, arr, newid) ==
  LET E2 == assignNewEntityProps(E1, newid)
      arr3 == placeNewEntityProps(headers, E2, arr)
      wrongs == checkRequired(headers, arr3)
      s3 == appendRow(s, arr3)
  IN IF checkRequiredThrows(headers)
     THEN Result(s3, E2, "TypeError", "create", <<>>, headers, <<>>)
     ELSE IF Len(wrongs) > 0
     THEN Result(s3, E2, "ValidationError", "create", wrongs, headers, <<>>)
     ELSE Result(s3, [E2 EXCEPT !.row_number = getLastRow(s3)], "ok", "create",
                 wrongs, headers, <<"appendRow">>)

\* createPath with id, created and created_by assigned to the entity only
\* once the required columns have been checked
createPathValidateFirst(s, headers, E1, arr, newid) ==
  LET E2 == assignNewEntityProps(E1, newid)
      arr3 == placeNewEntityProps(headers, E2, arr)
      wrongs == checkRequired(headers, arr3)
      s3 == appendRow(s, arr3)
  IN IF checkRequiredThrows(headers)
     THEN Result(s, E1, "TypeError", "create", <<>>, headers, <<>>)
     ELSE IF Len(wrongs) > 0
     THEN Result(s, E1, "ValidationError", "create", wrongs, headers, <<>>)
     ELSE Result(s3, [E2 EXCEPT !.row_number = getLastRow(s3)], "ok", "create",
                 wrongs, headers, <<"appendRow">>)

\* lines 550-565: the branch taken when this.id._value === ""
createPath(s, headers, E1, arr, newid) ==
  LET E2 == assignNewEntityProps(E1, newid)
      arr3 == placeNewEntityProps(headers, E2, arr)
      wrongs == checkRequired(headers, arr3)
      s3 == appendRow(s, arr3)
  IN IF checkRequiredThrows(headers)
     THEN Result(s, E2, "TypeError", "create", <<>>, headers, <<>>)
     ELSE IF Len(wrongs) > 0
     THEN Result(s, E2, "ValidationError", "create", wrongs, headers, <<>>)
     ELSE Result(s3, [E2 EXCEPT !.row_number = getLastRow(s3)], "ok", "create",
                 wrongs, headers, <<"appendRow">>)

\* updatePath with the row overwritten before the required columns are checked
updatePathWriteFirst(s, headers, E1, arr) ==
  LET wrongs == checkRequired(headers, arr)
      s3 == WriteCells(s, E1.row_number, 1, arr)
  IN IF checkRequiredThrows(headers)
     THEN Result(s3, E1, "TypeError", "update", <<>>, headers, <<>>)
     ELSE IF Len(wrongs) > 0
     THEN Result(s3, E1, "ValidationError", "update", wrongs, headers, <<>>)
     ELSE Result(s3, E1, "ok", "update", wrongs, headers, <<"setValues">>)

\* lines 566-572: the branch taken when id is set and row_number > 0;
\* setValues throws when the array is not as wide as the range
updatePath(s, headers, E1, arr) ==
  LET wrongs == checkRequired(headers, arr)
  IN IF checkRequiredThrows(headers)
     THEN Result(s, E1, "TypeError", "update", <<>>, headers, <<>>)
     ELSE IF Len(wrongs) > 0
     THEN Result(s, E1, "ValidationError", "update", wrongs, headers, <<>>)
     ELSE IF Len(arr) # getLastColumn(s)
     THEN Result(s, E1, "RangeError", "update", wrongs, headers, <<>>)
     ELSE Result(WriteCells(s, E1.row_number, 1, arr), E1, "ok", "update",
                 wrongs, headers, <<"setValues">>)

\* persist() with SpreadsheetApp.flush() issued before the row is written
persistFlushFirst(s, E, t, user, newid) ==
  LET ti == getTableInfo(s)
      E1 == Stamp(E, t, user)
      ua == getUpdateArray(E1, ti.sheet)
      r == IF E1.id = ""
           THEN createPath(ua.sheet, ti.headers, E1, ua.array, newid)
           ELSE IF E1.row_number > 0
           THEN updatePath(ua.sheet, ti.headers, E1, ua.array)
           ELSE Result(ua.sheet, E1, "ok", "none", <<>>, ti.headers, <<>>)
  IN [r EXCEPT !.calls = ti.calls \o ua.calls \o <<"flush">> \o @]

\* persist(): lines 541-575; a throw leaves before the flush of line 574
persist(s, E, t, user, newid) ==
  LET ti == getTableInfo(s)
      E1 == Stamp(E, t, user)
      ua == getUpdateArray(E1, ti.sheet)
      r == IF E1.id = ""
           THEN createPath(ua.sheet, ti.headers, E1, ua.array, newid)
           ELSE IF E1.row_number > 0
           THEN updatePath(ua.sheet, ti.headers, E1, ua.array)
           ELSE Result(ua.sheet, E1, "ok", "none", <<>>, ti.headers, <<>>)
  IN [r EXCEPT !.calls = ti.calls \o ua.calls \o @
                            \o (IF r.outcome = "ok" THEN <<"flush">> ELSE <<>>)]

\* remove() resolving the table before it looks at row_number
removeSyncFirst(s, E) ==
  LET ti == getTableInfo(s)
  IN IF E.row_number = 0
     THEN Result(ti.sheet, E, "ok", "none", <<>>, <<>>, ti.calls)
     ELSE Result(deleteCells(ti.sheet, E.row_number),
                 [E EXCEPT !.row_number = 0], "ok", "remove", <<>>, ti.headers,
                 ti.calls \o <<"deleteCells", "flush">>)

\* remove(): lines 589-598
remove(s, E) ==
  IF E.row_number = 0 THEN Result(s, E, "ok", "none", <<>>, <<>>, <<>>)
  ELSE LET ti == getTableInfo(s)
       IN Result(deleteCells(ti.sheet, E.row_number),
                 [E EXCEPT !.row_number = 0], "ok", "remove", <<>>, ti.headers,
                 ti.calls \o <<"deleteCells", "flush">>)

\* ------------------------------------------------------- the state machine
\* sheets left by earlier declarations of the record type
LegacyHeaders ==
  { class_props,
    BaseProps \o <<"quantity">>,
    BaseProps \o <<"name", "color", "quantity", "image">>,
    BaseProps \o <<"name", "color", "size", "quantity", "image">> }

\* a data row stored under such a declaration
LegacyValue(header) ==
  CASE header = "id" -> "old"
    [] header \in {"created", "modified"} -> DateOf(0)
    [] header \in {"created_by", "last_modified_by"} -> "ann"
    [] header = "name" -> "widget"
    [] header = "quantity" -> "5"
    [] header = "image" -> ""
    [] OTHER -> "red"

LegacyRow(headers) == Tuple([i \in DOMAIN headers |-> LegacyValue(headers[i])])

\* no sheet, or a sheet with such a header row and no or one data row
InitSheets ==
  {<<>>} \cup {<<h>> : h \in LegacyHeaders}
         \cup {<<h, LegacyRow(h)>> : h \in LegacyHeaders}

Blank == NewEntity("", "0", 0)

Log(op, e, r, twice, prevHeaders) ==
  [op |-> op, e |-> e, outcome |-> r.outcome, path |-> r.path,
   wrongs |-> r.wrongs, headers |-> r.headers, before |-> sheet,
   entBefore |-> IF e \in DOMAIN ent THEN ent[e] ELSE Blank,
   okBefore |-> IF e \in DOMAIN ent THEN everOk[e] ELSE FALSE,
   twice |-> twice, prevHeaders |-> prevHeaders, calls |-> r.calls,
   input |-> <<>>, result |-> <<>>]

\* the record of a query: what it was given and what it returned
LogQuery(op, outcome, s, input, result) ==
  [Log(op, 0, Result(s, Blank, outcome, "none", <<>>, <<>>, <<>>), FALSE, <<>>)
     EXCEPT !.input = input, !.result = result]

NoCall ==
  [op |-> "init", e |-> 0, outcome |-> "ok", path |-> "none",
   wrongs |-> <<>>, headers |-> <<>>, before |-> <<>>,
   entBefore |-> Blank, okBefore |-> FALSE, twice |-> FALSE,
   prevHeaders |-> <<>>, calls |-> <<>>, input |-> <<>>, result |-> <<>>]

\* no persist of the entity is under way
NotStarted == [pc |-> "idle", array |-> <<>>, at |-> 0, between |-> 0]

InitWith(sheets, n, calls) ==
  /\ sheet \in sheets
  /\ ent = [e \in 1..n |-> NewEntity("widget", "5", 0)]
  /\ ops = 0
  /\ limit = calls
  /\ everOk = [e \in 1..n |-> FALSE]
  /\ called = [e \in 1..n |-> FALSE]
  /\ last = NoCall
  /\ inflight = [e \in 1..n |-> NotStarted]

\* any sheet an earlier run may have left; entities as the constructor
\* builds them
Init == InitWith(InitSheets, NumEntities, MaxOps)

\* no sheet of the record type's name yet; one more entity and one more call
InitPlain == InitWith({<<>>}, NumEntities + 1, MaxOps + 1)

\* the sheet an earlier declaration of the record type (quantity only) left
InitLegacy == InitWith({<<BaseProps \o <<"quantity">>>>}, NumEntities + 1, MaxOps)

\* a second data row, stored after LegacyRow
SecondRow(headers) ==
  Tuple([i \in DOMAIN headers |->
           CASE headers[i] = "id" -> "old2"
             [] headers[i] = "name" -> "gadget"
             [] OTHER -> LegacyValue(headers[i])])

\* a synchronised sheet holding two data rows
LoadedSheet == <<class_props, LegacyRow(class_props), SecondRow(class_props)>>

\* the sheet holds two rows and every entity is either one that findAll()
\* returned (row_number and id from its row) or one just constructed
InitLoaded ==
  /\ sheet = LoadedSheet
  /\ ent \in [1..NumEntities ->
               Range(findAll(LoadedSheet)) \cup {NewEntity("widget", "5", 0)}]
  /\ ops = 0
  /\ limit = MaxOps
  /\ everOk = [e \in 1..NumEntities |-> FALSE]
  /\ called = [e \in 1..NumEntities |-> FALSE]
  /\ last = NoCall
  /\ inflight = [e \in 1..NumEntities |-> NotStarted]

\* headers of an earlier declaration with two columns since dropped
DroppedHeaders == BaseProps \o <<"name", "color", "size", "quantity", "image">>

\* a sheet of the record type's name made by hand in the spreadsheet, with
\* the columns name and quantity only: getTableInfo adds every declared
\* column an existing sheet lacks, the columns of the base class included
HandMadeHeaders == <<"name", "quantity">>

HandMadeSheets ==
  {<<HandMadeHeaders>>, <<HandMadeHeaders, LegacyRow(HandMadeHeaders)>>}

InitHandMade == InitWith(HandMadeSheets, NumEntities, MaxOps)

\* the sheets the queries are run on: none, the two-row sheet, and one-row
\* sheets of earlier declarations (quantity only; color and size since dropped)
QuerySheets ==
  {<<>>, LoadedSheet,
   <<BaseProps \o <<"quantity">>, LegacyRow(BaseProps \o <<"quantity">>)>>,
   <<DroppedHeaders, LegacyRow(DroppedHeaders)>>}

InitQuery == InitWith(QuerySheets, NumEntities, MaxOps)

\* every sheet of the runs above; one caller per entity, each running one
\* persist in three steps
ConcurrentSheets == InitSheets \cup HandMadeSheets \cup {LoadedSheet}

InitConcurrent ==
  InitWith(ConcurrentSheets, NumEntities + 1, 3 * (NumEntities + 1))

\* generateId is called on its own, with no sheet
InitGenerateId == InitWith({<<>>}, NumEntities, MaxOps)

\* entity.persist() with the active user and the identifier generateId(8)
\* draws from idset
PersistWith(e, idset) ==
  /\ ops < limit
  /\ \E user \in Users, newid \in idset :
       LET r == persist(sheet, ent[e], ops + 1, user, newid)
       IN /\ sheet' = r.sheet
          /\ ent' = [ent EXCEPT ![e] = r.ent]
          /\ everOk' = [everOk EXCEPT ![e] =
                          @ \/ (r.outcome = "ok" /\ r.path # "none")]
          /\ last' = [Log("persist", e, r, FALSE, <<>>) EXCEPT !.input = user]
  /\ called' = [called EXCEPT ![e] = TRUE]
  /\ ops' = ops + 1
  /\ UNCHANGED <<limit, inflight>>

\* Math.random() may draw any identifier, one already in use included
Persist(e) == PersistWith(e, Ids)

\* the runs in which generateId never repeats an identifier
FreshIds(e) ==
  IF ent[e].id # "" THEN Ids ELSE Ids \ {ent[x].id : x \in DOMAIN ent}

PersistFresh(e) == PersistWith(e, FreshIds(e))

\* entity.remove()
Remove(e) ==
  /\ ops < limit
  /\ LET r == remove(sheet, ent[e])
     IN /\ sheet' = r.sheet
        /\ ent' = [ent EXCEPT ![e] = r.ent]
        /\ last' = Log("remove", e, r, FALSE, <<>>)
  /\ ops' = ops + 1
  /\ UNCHANGED <<limit, everOk, called, inflight>>

\* entity.setValue(key, value): lines 436-438
SetValue(e, key, value) ==
  /\ ops < limit
  /\ ent[e][key] # value
  /\ ent' = [ent EXCEPT ![e][key] = value]
  /\ last' = Log("setValue", e,
                 Result(sheet, ent[e], "ok", "none", <<>>, <<>>, <<>>),
                 FALSE, <<>>)
  /\ ops' = ops + 1
  /\ UNCHANGED <<sheet, limit, everOk, called, inflight>>

\* Item.getTableInfo(), called on its own (as findAll() does first)
Sync ==
  /\ ops < limit
  /\ LET ti == getTableInfo(sheet)
     IN /\ sheet' = ti.sheet
        /\ last' = [Log("getTableInfo", 0,
                        Result(ti.sheet, Blank, "ok", "none", <<>>, ti.headers,
                               ti.calls),
                        last.op = "getTableInfo", last.headers)
                      EXCEPT !.result = sheetWithNewProps(sheet)]
  /\ ops' = ops + 1
  /\ UNCHANGED <<ent, limit, everOk, called, inflight>>

SetValues == {"", "widget"}

\* persist of e by a caller of its own, up to the throw of line 562: lines
\* 542-563, run as one step.  The steps that interleave are the two store
\* calls that follow, appendRow and getLastRow.
CreateBegin(e) ==
  /\ ops < limit
  /\ inflight[e].pc = "idle"
  /\ ent[e].id = ""
  /\ \E user \in Users, newid \in FreshIds(e) :
       LET ti == getTableInfo(sheet)
           E1 == Stamp(ent[e], ops + 1, user)
           ua == getUpdateArray(E1, ti.sheet)
           E2 == assignNewEntityProps(E1, newid)
           arr == placeNewEntityProps(ti.headers, E2, ua.array)
           thrown == \/ checkRequiredThrows(ti.headers)
                     \/ Len(checkRequired(ti.headers, arr)) > 0
       IN /\ sheet' = ua.sheet
          /\ ent' = [ent EXCEPT ![e] = E2]
          /\ inflight' = [inflight EXCEPT ![e] =
                 [pc |-> IF thrown THEN "failed" ELSE "validated",
                  array |-> IF thrown THEN <<>> ELSE arr,
                  at |-> 0, between |-> 0]]
  /\ called' = [called EXCEPT ![e] = TRUE]
  /\ ops' = ops + 1
  /\ UNCHANGED <<limit, everOk, last>>

\* line 564 of that persist: sheet.appendRow(updateArray), one store call.
\* at is the row it fills; between counts, for every caller that has
\* appended and not yet read the last row, the rows appended since.
CreateAppend(e) ==
  /\ ops < limit
  /\ inflight[e].pc = "validated"
  /\ sheet' = appendRow(sheet, inflight[e].array)
  /\ inflight' = [x \in DOMAIN inflight |->
         IF x = e
         THEN [inflight[x] EXCEPT !.pc = "appended", !.at = getLastRow(sheet'),
                                  !.between = 0]
         ELSE IF inflight[x].pc = "appended"
         THEN [inflight[x] EXCEPT !.between = @ + 1]
         ELSE inflight[x]]
  /\ ops' = ops + 1
  /\ UNCHANGED <<ent, limit, everOk, called, last>>

\* lines 565 and 574 of that persist: this.row_number = sheet.getLastRow(),
\* then the flush
CreateRead(e) ==
  /\ ops < limit
  /\ inflight[e].pc = "appended"
  /\ ent' = [ent EXCEPT ![e].row_number = getLastRow(sheet)]
  /\ inflight' = [inflight EXCEPT ![e].pc = "done"]
  /\ everOk' = [everOk EXCEPT ![e] = TRUE]
  /\ ops' = ops + 1
  /\ UNCHANGED <<sheet, limit, called, last>>

\* the conditions objects given to filterByConsitions
FilterKeys == <<"name", "color">>
FilterValues == {"nonfn"} \cup Predicates
FilterInputs ==
  {<<>>} \cup {<<<<FilterKeys[1], v>>>> : v \in FilterValues}
         \cup {<<<<FilterKeys[2], v>>>> : v \in FilterValues}
         \cup {<<<<FilterKeys[1], v>>, <<FilterKeys[2], w>>>> :
                 v \in FilterValues, w \in FilterValues}

\* Item.filterByConsitions(conditions)
Filter ==
  /\ ops < limit
  /\ \E conditions \in FilterInputs :
       LET r == filterByConsitions(conditions, sheet)
       IN /\ sheet' = r.sheet
          /\ last' = LogQuery("filterByConsitions", "ok", r.sheet, conditions,
                              r.result)
  /\ ops' = ops + 1
  /\ UNCHANGED <<ent, limit, everOk, called, inflight>>

\* the identifiers looked up: the ones generateId may give and the stored one
LookupIds == Ids \cup {LegacyValue("id")}

\* Item.findById(id)
FindById ==
  /\ ops < limit
  /\ \E id \in LookupIds :
       /\ sheet' = getTableInfo(sheet).sheet
       /\ last' = LogQuery("findById", "ok", getTableInfo(sheet).sheet, id,
                           findById(sheet, id))
  /\ ops' = ops + 1
  /\ UNCHANGED <<ent, limit, everOk, called, inflight>>

\* new Order(item).expand()
Expand ==
  /\ ops < limit
  /\ \E item \in LookupIds :
       LET r == expand(sheet, NewOrder(item, ops))
       IN /\ sheet' = r.sheet
          /\ last' = LogQuery("expand", "ok", r.sheet, item, r.ent)
  /\ ops' = ops + 1
  /\ UNCHANGED <<ent, limit, everOk, called, inflight>>

\* the calls generateId(length) that are modelled: every length up to
\* MaxIdLen with every draw of RandomIndexes, and the calls persist makes
GenerateInputs ==
  UNION {{<<n, Tuple(random)>> : random \in [1..Max({n, 0}) -> RandomIndexes]} :
           n \in (-1)..MaxIdLen}
    \cup {<<IdLength, Tuple(random)>> : random \in IdDraws}

\* GSTable.generateId(length)
GenerateId ==
  /\ ops < limit
  /\ \E input \in GenerateInputs :
       LET r == generateId(input[1], input[2])
       IN last' = LogQuery("generateId", IF r.threw THEN "Error" ELSE "ok",
                           sheet, input, r)
  /\ ops' = ops + 1
  /\ UNCHANGED <<sheet, ent, limit, everOk, called, inflight>>

Next ==
  \/ \E e \in DOMAIN ent : Persist(e)
  \/ \E e \in DOMAIN ent : Remove(e)
  \/ \E e \in DOMAIN ent, v \in SetValues : SetValue(e, "name", v)
  \/ Sync

Spec == Init /\ [][Next]_vars

NextFresh ==
  \/ \E e \in DOMAIN ent : PersistFresh(e)
  \/ \E e \in DOMAIN ent : Remove(e)
  \/ \E e \in DOMAIN ent, v \in SetValues : SetValue(e, "name", v)
  \/ Sync

\* the runs that start without a sheet and in which generateId never repeats
\* an identifier
SpecPlain == InitPlain /\ [][NextFresh]_vars

\* the runs that start on the sheet an earlier declaration of the record
\* type (quantity only) has left
SpecLegacy == InitLegacy /\ [][Next]_vars

\* the runs that start on a sheet made by hand
SpecHandMade == InitHandMade /\ [][Next]_vars

\* the runs that start on a sheet with two rows, with entities read from it
SpecLoaded == InitLoaded /\ [][Next]_vars

NextQuery ==
  \/ \E e \in DOMAIN ent : Persist(e)
  \/ \E e \in DOMAIN ent : Remove(e)
  \/ Filter
  \/ FindById
  \/ Expand

\* the runs that mix the queries with persist and remove
SpecQuery == InitQuery /\ [][NextQuery]_vars

NextConcurrent ==
  \/ \E e \in DOMAIN ent : CreateBegin(e)
  \/ \E e \in DOMAIN ent : CreateAppend(e)
  \/ \E e \in DOMAIN ent : CreateRead(e)

\* the runs in which every entity is persisted by a caller of its own and
\* the callers' store calls interleave
SpecConcurrent == InitConcurrent /\ [][NextConcurrent]_vars

\* the runs that call generateId only
SpecGenerateId == InitGenerateId /\ [][GenerateId]_vars

\* ------------------------------------------------------------- claims
IdAt(g, r) == Cell(g, r, IndexOf(g[1], "id") + 1)
RowsWithId(g, id) == {r \in 2..Len(g) : IdAt(g, r) = id}

\* the required columns of E holding undefined or ""
MissingRequired(E) == {p \in Range(class_props) : Required(p) /\ IsMissing(E[p])}

SameColumns(F, E) == \A p \in Range(class_props) : F[p] = E[p]

LastEnt == ent[last.e]
PersistDone == last.op = "persist"

\* C1: after persist(e) returns normally with every required column set,
\* findById(e.id) returns an entity with the same column values as e
C1_RoundTrip ==
  (PersistDone /\ last.outcome = "ok" /\ MissingRequired(LastEnt) = {})
    => LET f == findById(sheet, LastEnt.id)
       IN f # NotFound /\ SameColumns(f, LastEnt)

\* C2: persist of an entity that was persisted and then removed (id set,
\* row_number 0), required columns set, adds a row with the same id and
\* gives the entity a row_number > 0
C2_RepersistAfterRemove ==
  (PersistDone /\ last.okBefore /\ last.entBefore.id # ""
     /\ last.entBefore.row_number = 0 /\ MissingRequired(LastEnt) = {})
    => /\ LastEnt.id = last.entBefore.id
       /\ LastEnt.row_number > 0
       /\ Len(sheet) = Len(last.before) + 1
       /\ IdAt(sheet, LastEnt.row_number) = LastEnt.id

\* C3: a persist on the create or update path whose entity has a non-empty
\* set M of required columns that are undefined or "" (as validated, after
\* stamping) fails with a validation error naming exactly M
C3_ValidationComplete ==
  (PersistDone /\ last.path \in {"create", "update"}
     /\ MissingRequired(LastEnt) # {})
    => /\ last.outcome = "ValidationError"
       /\ Range(last.wrongs) = MissingRequired(LastEnt)

\* C4: an update (id set, row_number > 0) rejected by validation leaves the
\* sheet, header row and data rows, as it was before the call
C4_RejectedUpdateUntouched ==
  (PersistDone /\ last.path = "update" /\ last.outcome = "ValidationError")
    => sheet = last.before

C4_Witness ==
  /\ PersistDone /\ last.path = "update" /\ last.outcome = "ValidationError"
  /\ last.entBefore.row_number > 0 /\ last.entBefore.id # ""
  /\ Len(sheet) >= 2

InSync(g) == g # <<>> /\ g[1] = class_props

\* every cell of g, header cells included, is the same cell of h
CellsKept(g, h) ==
  \A r \in DOMAIN g : \A c \in DOMAIN g[r] : Cell(h, r, c) = g[r][c]

StoredRows(e) ==
  IF sheet = <<>> \/ ent[e].id = "" THEN {} ELSE RowsWithId(sheet, ent[e].id)

IdKept ==
  (last.op \in {"persist", "remove"} /\ last.entBefore.id # "")
    => LastEnt.id = last.entBefore.id

\* C6 as claimed: id is empty iff the entity was never successfully
\* persisted, and a non-empty id is never changed by persist or remove
C6_IdEmptyIffNeverPersisted ==
  /\ \A e \in DOMAIN ent : (ent[e].id = "") <=> ~everOk[e]
  /\ IdKept

\* C6 amended: id is empty iff persist was never called on the entity (a
\* create rejected by validation has already assigned it), every successfully
\* persisted entity has an id, and a non-empty id is never changed by persist
\* or remove
C6_IdEmptyIffNeverCalled ==
  /\ \A e \in DOMAIN ent : (ent[e].id = "") <=> ~called[e]
  /\ \A e \in DOMAIN ent : everOk[e] => ent[e].id # ""
  /\ IdKept

C6_Witness ==
  /\ PersistDone /\ last.outcome = "ValidationError" /\ last.path = "create"
  /\ LastEnt.id # "" /\ ~everOk[last.e]

\* C7: row_number = 0 iff no data row of the sheet stores the entity
C7_RowNumberZeroIffNotStored ==
  \A e \in DOMAIN ent : (ent[e].row_number = 0) <=> (StoredRows(e) = {})

\* C8: an entity with row_number > 0 has, at that grid row, the data row
\* carrying its own id
C8_RowNumberIsPosition ==
  \A e \in DOMAIN ent : ent[e].row_number > 0 => ent[e].row_number \in StoredRows(e)

\* C9: no two data rows of the sheet carry the same id
C9_IdUnique ==
  sheet # <<>> =>
    \A r1, r2 \in 2..Len(sheet) : r1 # r2 => IdAt(sheet, r1) # IdAt(sheet, r2)

NoDuplicates(s) == \A i, j \in DOMAIN s : i # j => s[i] # s[j]

\* C10: a second getTableInfo() right after a first returns the same header
\* list, without duplicates, and leaves the header row as the first left it
C10_SchemaIdempotent ==
  (last.op = "getTableInfo" /\ last.twice)
    => /\ last.headers = last.prevHeaders
       /\ NoDuplicates(last.headers)
       /\ sheet[1] = last.before[1]

\* C11: the header list getTableInfo() returns is the header row of the sheet
\* as that call leaves it, whatever the sheet was before (absent, declared
\* headers, declared headers missing, undeclared headers present)
C11_FinalHeaders ==
  last.op = "getTableInfo" => last.headers = sheet[1]

Declared(header) == header \in Range(class_props)
Undeclared(g) == {c \in DOMAIN g[1] : ~Declared(g[1][c])}

\* the declared headers of g in their order, then the declared columns g lacks
ExpectedHeaders(g) ==
  SelectSeq(g[1], Declared)
    \o SelectSeq(class_props, LAMBDA n : n \notin Range(g[1]))

\* C12: when the header row holds undeclared headers, getTableInfo() leaves
\* as header row the declared headers it held, in their order, followed by
\* the added ones, and every data cell under a declared header stays under it
C12_ColumnRemoval ==
  (last.op = "getTableInfo" /\ last.before # <<>> /\ Undeclared(last.before) # {})
    => /\ sheet[1] = ExpectedHeaders(last.before)
       /\ \A r \in 2..Len(last.before) : \A c \in DOMAIN last.before[1] :
            Declared(last.before[1][c])
              => Cell(sheet, r, IndexOf(sheet[1], last.before[1][c]) + 1)
                   = last.before[r][c]

\* the data rows g had are the same rows of h, cell by cell
DataRowsKept(g, h) ==
  \A r \in 2..Len(g) :
    \A c \in 1..Max({getLastColumn(g), getLastColumn(h)}) :
      Cell(h, r, c) = Cell(g, r, c)

\* C16: persist on an entity with empty id and every required column set
\* (as validated, after stamping) returns normally, appends one row after the
\* last row (row 2 on a sheet that held the header row only), leaves the
\* data rows there were unchanged, gives the entity an id of 8 characters,
\* stored in the new row, and sets row_number to the new last row
C16_SuccessfulCreate ==
  (PersistDone /\ last.entBefore.id = "" /\ MissingRequired(LastEnt) = {})
    => /\ last.outcome = "ok"
       /\ Len(sheet) = Max({1, Len(last.before)}) + 1
       /\ DataRowsKept(last.before, sheet)
       /\ Len(LastEnt.id) = IdLength
       /\ LastEnt.row_number = getLastRow(sheet)
       /\ IdAt(sheet, LastEnt.row_number) = LastEnt.id
       /\ Len(last.before) <= 1 => LastEnt.row_number = 2

Writes == {"insertSheet", "appendRow", "setValues", "deleteColumn", "deleteCells"}

\* every write of the call log is followed by a flush
Committed(calls) ==
  \A i \in DOMAIN calls :
    calls[i] \in Writes => \E j \in DOMAIN calls : j > i /\ calls[j] = "flush"

\* C18: getTableInfo(), a persist that returns normally and a remove issue
\* SpreadsheetApp.flush() after their last write to the store: no write of
\* the call is left without a later flush when it returns
C18_CommitBarrier ==
  (last.op \in {"getTableInfo", "persist", "remove"} /\ last.outcome = "ok")
    => Committed(last.calls)

C18_Witness ==
  /\ PersistDone /\ last.outcome = "ok" /\ last.path = "create"
  /\ "appendRow" \in Range(last.calls)
  /\ Len(sheet) = Len(last.before) + 1

\* C19: remove on an entity whose row_number is 0 makes no store call (no
\* sheet is created, no header synchronised, no row deleted), leaves the
\* sheet as it was and leaves every field of the entity unchanged
C19_RemoveTransientNoOp ==
  (last.op = "remove" /\ last.entBefore.row_number = 0)
    => /\ sheet = last.before
       /\ last.calls = <<>>
       /\ LastEnt = last.entBefore

C19_Witness ==
  /\ last.op = "remove" /\ last.entBefore.row_number = 0
  /\ ~InSync(last.before)

QueryDone(op) == last.op = op

\* C13: filterByConsitions({}) returns an empty array whatever the sheet
\* holds, data rows included
C13_EmptyFilter ==
  (QueryDone("filterByConsitions") /\ last.input = <<>>) => last.result = <<>>

C13_Witness ==
  /\ QueryDone("filterByConsitions") /\ last.input = <<>>
  /\ Len(last.before) >= 3 /\ Len(findAll(last.before)) >= 2

\* the indexes of the entities of all that meet every condition: the value
\* is not a function, or it returns truthy on the entity's property
Meets(entity, conditions) ==
  \A i \in DOMAIN conditions :
    conditions[i][2] \in Predicates
      => Invoke(conditions[i][2], entity, conditions[i][1])

Kept(all, conditions) == {i \in DOMAIN all : Meets(all[i], conditions)}

\* the k-th smallest element of the set S of numbers
Nth(S, k) == CHOOSE x \in S : Cardinality({y \in S : y <= x}) = k

Null == [id |-> "<null>", row_number |-> 0]

Miss(g, id) == \A i \in DOMAIN findAll(g) : findAll(g)[i]["id"] # id

\* C15: when no entity of the referenced type has the id, expand() sets the
\* resolved-reference property (item_) to null without an error, and
\* findById returns null
C15_ForeignKeyMiss ==
  /\ (QueryDone("expand") /\ Miss(last.before, last.input))
       => last.outcome = "ok" /\ last.result["item_"] = Null
  /\ (QueryDone("findById") /\ Miss(last.before, last.input))
       => last.result = Null

AlphaNumeric ==
  {"A", "B", "C", "D", "E", "F", "G", "H", "I", "J", "K", "L", "M", "N", "O",
   "P", "Q", "R", "S", "T", "U", "V", "W", "X", "Y", "Z"}
  \cup
  {"a", "b", "c", "d", "e", "f", "g", "h", "i", "j", "k", "l", "m", "n", "o",
   "p", "q", "r", "s", "t", "u", "v", "w", "x", "y", "z"}
  \cup {"0", "1", "2", "3", "4", "5", "6", "7", "8", "9"}

\* C17: generateId(n) with n > 0 returns n characters, each of [A-Za-z0-9];
\* with n <= 0 it throws and returns no identifier
C17_GenerateId ==
  QueryDone("generateId")
    => LET n == last.input[1]
           r == last.result
       IN /\ n > 0 => /\ ~r.threw /\ last.outcome = "ok"
                      /\ Len(r.value) = n
                      /\ \A i \in DOMAIN r.value : r.value[i] \in AlphaNumeric
          /\ n <= 0 => r.threw /\ r.value = <<>> /\ last.outcome = "Error"

C17_Witness ==
  /\ QueryDone("generateId") /\ last.input[1] = MaxIdLen
  /\ ~last.result.threw
  /\ {"Z", "a", "9"} \subseteq Range(last.result.value)

\* C20: remove on an entity with row_number = r > 0, the sheet being in sync,
\* deletes grid row r: the header row and the rows above r are unchanged,
\* every row that was at p > r is at p - 1 with the same cells, row_number
\* becomes 0 and no other field of the entity changes
C20_RemoveBacked ==
  (QueryDone("remove") /\ last.entBefore.row_number > 0 /\ InSync(last.before))
    => LET r == last.entBefore.row_number
           g == last.before
       IN /\ sheet[1] = g[1]
          /\ \A p \in 1..Len(g) : \A c \in DOMAIN g[1] :
               Cell(sheet, p, c) = IF p < r THEN g[p][c] ELSE Cell(g, p + 1, c)
          /\ Len(sheet) = IF r <= Len(g) THEN Len(g) - 1 ELSE Len(g)
          /\ LastEnt = [last.entBefore EXCEPT !.row_number = 0]

C20_Witness ==
  /\ QueryDone("remove") /\ last.entBefore.row_number = 2
  /\ InSync(last.before) /\ Len(last.before) >= 3
  /\ sheet[2] = last.before[3]

\* the cells of grid row r of g are E's values, column by column, in the
\* order of the header row of g
RowHolds(g, r, E) ==
  \A k \in DOMAIN g[1] :
    isColumn(g[1][k]) => Cell(g, r, k) = CellOf(E[g[1][k]])

\* C21: persist on an entity with an id, row_number = r > 0 and every
\* required column set returns normally and overwrites grid row r with the
\* entity's column values; the number of rows, the header row, every other
\* data row, and the entity's id and row_number are unchanged
C21_UpdateInPlace ==
  (PersistDone /\ last.entBefore.id # "" /\ last.entBefore.row_number > 0
     /\ MissingRequired(LastEnt) = {})
    => LET r == last.entBefore.row_number
           g == last.before
       IN /\ last.outcome = "ok"
          /\ Len(sheet) = Len(g)
          /\ sheet[1] = g[1]
          /\ \A p \in 2..Len(g) : p # r => sheet[p] = g[p]
          /\ RowHolds(sheet, r, LastEnt)
          /\ LastEnt.id = last.entBefore.id
          /\ LastEnt.row_number = r

\* the declared columns the header row of g lacks, in declaration order
Lacking(g) == SelectSeq(class_props, LAMBDA n : n \notin Range(g[1]))

C23_HeaderAlignment ==
  (PersistDone /\ last.outcome = "ok" /\ last.path \in {"create", "update"})
    => RowHolds(sheet, LastEnt.row_number, LastEnt)

\* the cell of grid row r under the header named
HeaderCell(g, r, header) == Cell(g, r, IndexOf(g[1], header) + 1)

\* C24: every persist sets modified to the time of the call and
\* last_modified_by to the active user's email, or leaves it when there is no
\* active user; on the create path created = modified and created_by =
\* last_modified_by, on the entity and in the row stored; on the update path
\* created and created_by are unchanged
C24_Stamping ==
  PersistDone
    => /\ LastEnt.modified = DateOf(ops)
       /\ LastEnt.last_modified_by =
            IF last.input # NoUser THEN last.input
            ELSE last.entBefore.last_modified_by
       /\ last.path = "create"
            => /\ LastEnt.created = LastEnt.modified
               /\ LastEnt.created_by = LastEnt.last_modified_by
               /\ last.outcome = "ok"
                    => LET r == LastEnt.row_number
                       IN /\ HeaderCell(sheet, r, "created") = LastEnt.created
                          /\ HeaderCell(sheet, r, "modified") = LastEnt.modified
                          /\ HeaderCell(sheet, r, "created_by")
                               = LastEnt.created_by
                          /\ HeaderCell(sheet, r, "last_modified_by")
                               = LastEnt.last_modified_by
       /\ last.path = "update"
            => /\ LastEnt.created = last.entBefore.created
               /\ LastEnt.created_by = last.entBefore.created_by

CreateDone(e) == inflight[e].pc = "done"

====
